---- MODULE Spec2Model ----
(***************************************************************************)
(* RFM69 transceiver driver (Source/rfm69.cxx, Source/rfm69.hxx).          *)
(*                                                                         *)
(* The driver object and the chip behind the serial bus are one state      *)
(* machine.  Every driver function is an operator that maps a device       *)
(* record (the driver's fields, the chip's register file and the frames    *)
(* put on the bus by the running operation) to the record after the call;  *)
(* every public operation is an action that applies its operator to the    *)
(* current state.  send is also given step by step, against a wall clock,  *)
(* because its bounded waits and its CSMA loop interleave with the chip    *)
(* and with the passing of time.                                           *)
(***************************************************************************)
EXTENDS Integers, Sequences, FiniteSets, TLC

VARIABLES
  mode,              \* RFM69::_mode
  highPowerDevice,   \* RFM69::_highPowerDevice
  powerLevel,        \* RFM69::_powerLevel
  rssi,              \* RFM69::_rssi
  autoReadRSSI,      \* RFM69::_autoReadRSSI
  ookEnabled,        \* RFM69::_ookEnabled
  highPowerSettings, \* RFM69::_highPowerSettings
  csmaEnabled,       \* RFM69::_csmaEnabled
  rxBuffer,          \* RFM69::_rxBuffer, RFM69_MAX_PAYLOAD bytes
  rxBufferLength,    \* RFM69::_rxBufferLength
  inited,            \* RFM69::_init
  reg,               \* the chip's register file, addresses 0x00..0x7F
  bus,               \* frames clocked out by the operation running or last run
  op,                \* the operation running or last run, with its arguments
  ret,               \* its return value (0 for void, 1/0 for bool)
  out,               \* bytes it copied into the caller's buffer
  pc,                \* position inside send; "idle" between operations
  clk,               \* wall clock (CLOCK_REALTIME) while send runs
  loc                \* locals of the running send

vars == <<mode, highPowerDevice, powerLevel, rssi, autoReadRSSI, ookEnabled,
          highPowerSettings, csmaEnabled, rxBuffer, rxBufferLength, inited,
          reg, bus, op, ret, out, pc, clk, loc>>

---------------------------------------------------------------------------
(* Program constants.                                                      *)

RFM69_MAX_PAYLOAD == 64
RFM69_XO == 32000000
RFM69_FSTEP == 61
TIMEOUT_MODE_READY == 100
TIMEOUT_PACKET_SENT == 100
TIMEOUT_CSMA_READY == 500
CSMA_RSSI_THRESHOLD == -85
TIMEOUT_RSSI_DONE == 10
CSMA_DELAY_MODULUS == 10
NSEC_PER_TICK == 1000000

RFM69_MODE_SLEEP == 0
RFM69_MODE_STANDBY == 1
RFM69_MODE_FS == 2
RFM69_MODE_TX == 3
RFM69_MODE_RX == 4

Byte == 0..255
RegAddr == 0..127

---------------------------------------------------------------------------
(* Bit arithmetic on unsigned values.                                      *)

\* a & b, bit by bit from the lowest.
BitAndOf[a \in Byte, b \in Byte] ==
  IF a = 0 \/ b = 0 THEN 0
  ELSE (a % 2) * (b % 2) + 2 * BitAndOf[a \div 2, b \div 2]

BitAnd(a, b) == BitAndOf[a, b]

BitOr(a, b) == a + b - BitAnd(a, b)

U8(x) == x % 256

\* A uint32_t as two 16-bit halves, [hi, lo].
U32Add(a, n) ==
  [hi |-> (a.hi + ((a.lo + n) \div 65536)) % 65536, lo |-> (a.lo + n) % 65536]

U32Sub(a, b) ==
  [hi |-> (a.hi - b.hi - (IF a.lo < b.lo THEN 1 ELSE 0)) % 65536,
   lo |-> (a.lo - b.lo) % 65536]

\* a < n for a uint32_t a and a constant n below 65536.
U32Less(a, n) == a.hi = 0 /\ a.lo < n

Min(a, b) == IF a < b THEN a ELSE b

---------------------------------------------------------------------------
(* The device record the driver functions work on.                         *)

Dev ==
  [mode |-> mode, highPowerDevice |-> highPowerDevice,
   powerLevel |-> powerLevel, rssi |-> rssi, autoReadRSSI |-> autoReadRSSI,
   ookEnabled |-> ookEnabled, highPowerSettings |-> highPowerSettings,
   csmaEnabled |-> csmaEnabled, rxBuffer |-> rxBuffer,
   rxBufferLength |-> rxBufferLength, inited |-> inited,
   reg |-> reg, bus |-> bus]

Commit(d) ==
  \E v \in {d} :
      /\ mode' = v.mode
      /\ highPowerDevice' = v.highPowerDevice
      /\ powerLevel' = v.powerLevel
      /\ rssi' = v.rssi
      /\ autoReadRSSI' = v.autoReadRSSI
      /\ ookEnabled' = v.ookEnabled
      /\ highPowerSettings' = v.highPowerSettings
      /\ csmaEnabled' = v.csmaEnabled
      /\ rxBuffer' = v.rxBuffer
      /\ rxBufferLength' = v.rxBufferLength
      /\ inited' = v.inited
      /\ reg' = v.reg
      /\ bus' = v.bus

\* An operation starts with an empty bus record.
Begin == [Dev EXCEPT !.bus = <<>>]

---------------------------------------------------------------------------
(* Register access layer.                                                  *)

\* rf12_xferCmd: the two bytes of cmd, high byte first.
rf12_xferCmd(cmd) == <<(cmd \div 256) % 256, cmd % 256>>

\* rf12_xferByte: one byte on the bus.
rf12_xferByte(cmd) == <<U8(cmd)>>

\* rf12_xferCmd, the value returned: the two bytes clocked back, the first
\* one in the high half.
rf12_xferCmdReturn(rx) == rx[1] * 256 + rx[2]

\* What the chip clocks back while the address byte goes out.
AddressPhaseByte == 255

\* The two bytes a chip that keeps its registers clocks back for a frame.
ChipAnswer(d, tx) == <<AddressPhaseByte, d.reg[tx[1] % 128]>>

\* readRegister returning the first byte clocked back.
readRegister_firstByte(d, r) ==
  IF r > 127 THEN 0
  ELSE rf12_xferCmdReturn(ChipAnswer(d, rf12_xferCmd(r * 256))) \div 256

\* readRegister, the value returned: uint8_t value = rf12_xferCmd(...).
readRegister(d, r) ==
  IF r > 127 THEN 0
  ELSE U8(rf12_xferCmdReturn(ChipAnswer(d, rf12_xferCmd(r * 256))))

\* readRegister, the effect on the bus.
readRegisterBus(d, r) ==
  IF r > 127 THEN d ELSE [d EXCEPT !.bus = Append(@, rf12_xferCmd(r * 256))]

\* readRegister called again and again by a polling loop: the bus record
\* keeps one frame for a run of identical polls.
pollRegisterBus(d, r) ==
  IF Len(d.bus) > 0 /\ d.bus[Len(d.bus)] = rf12_xferCmd(r * 256)
  THEN d
  ELSE readRegisterBus(d, r)

\* writeRegister without the sanity check.
writeRegister_unchecked(d, r, value) ==
  LET cmd == BitOr(r, 128) * 256 + (value % 256)
      frame == rf12_xferCmd(cmd)
  IN [d EXCEPT !.bus = Append(@, frame), !.reg[frame[1] % 128] = frame[2]]

writeRegister(d, r, value) ==
  IF r > 127 THEN d
  ELSE LET cmd == BitOr(r, 128) * 256 + (value % 256)
           frame == rf12_xferCmd(cmd)
       IN [d EXCEPT !.bus = Append(@, frame), !.reg[r] = frame[2]]

\* The chip changes one of its own status registers.
ChipSets(d, r, value) == [d EXCEPT !.reg[r] = value]

---------------------------------------------------------------------------
(* Mode state machine and power controller.                                *)

\* setHighPowerSettings with the two pairs of values exchanged.
setHighPowerSettings_swapped(d, enable) ==
  LET en == IF enable /\ ~d.highPowerDevice THEN FALSE ELSE enable
      d1 == writeRegister(d, 90, IF en THEN 85 ELSE 93)
  IN writeRegister(d1, 92, IF en THEN 112 ELSE 124)

\* setHighPowerSettings without the check of the device.
setHighPowerSettings_anyDevice(d, enable) ==
  LET d1 == writeRegister(d, 90, IF enable THEN 93 ELSE 85)
  IN writeRegister(d1, 92, IF enable THEN 124 ELSE 112)

\* setHighPowerSettings: enabling is turned into disabling on a device that
\* is not a high-power one; then registers 0x5A and 0x5C are written.
setHighPowerSettings(d, enable) ==
  LET en == IF enable /\ ~d.highPowerDevice THEN FALSE ELSE enable
      d1 == writeRegister(d, 90, IF en THEN 93 ELSE 85)
  IN writeRegister(d1, 92, IF en THEN 124 ELSE 112)

\* setMode without the check of its argument.
setMode_unchecked(d, m) ==
  [writeRegister(d, 1, m * 4) EXCEPT !.mode = m]

setMode(d, m) ==
  IF m = d.mode \/ m > RFM69_MODE_RX THEN d
  ELSE LET d1 == writeRegister(d, 1, m * 4)
           d2 == IF d1.highPowerDevice
                 THEN IF m = RFM69_MODE_RX
                      THEN IF d1.highPowerSettings
                           THEN setHighPowerSettings(d1, FALSE) ELSE d1
                      ELSE IF m = RFM69_MODE_TX
                      THEN IF d1.highPowerSettings
                           THEN setHighPowerSettings(d1, TRUE) ELSE d1
                      ELSE d1
                 ELSE d1
       IN [d2 EXCEPT !.mode = m]

\* Every path of setMode returns _mode.
setModeReturn(d, m) == setMode(d, m).mode

sleep(d) == setMode(d, RFM69_MODE_SLEEP)

\* setPASettings enabling the over-current protection on every device.
setPASettings_ocpAlways(d, forcePA) ==
  LET d1 == writeRegister(d, 19, 26)
  IN writeRegister(readRegisterBus(d1, 17), 17,
                   BitOr(BitAnd(readRegister(d1, 17), 31),
                         IF d1.highPowerDevice THEN 64 ELSE 128))

setPASettings(d, forcePA) ==
  LET d1 == writeRegister(d, 19, BitOr(10, IF d.highPowerDevice THEN 0 ELSE 16))
  IN IF forcePA = 0
     THEN IF d1.highPowerDevice
          THEN writeRegister(readRegisterBus(d1, 17), 17,
                             BitOr(BitAnd(readRegister(d1, 17), 31), 64))
          ELSE writeRegister(readRegisterBus(d1, 17), 17,
                             BitOr(BitAnd(readRegister(d1, 17), 31), 128))
     ELSE LET pa == (IF BitAnd(forcePA, 1) # 0 THEN 128 ELSE 0)
                    + (IF BitAnd(forcePA, 2) # 0 THEN 64 ELSE 0)
                    + (IF BitAnd(forcePA, 4) # 0 THEN 32 ELSE 0)
              d2 == [d1 EXCEPT !.highPowerSettings = (BitAnd(forcePA, 8) # 0)]
              d3 == setHighPowerSettings(d2, d2.highPowerSettings)
          IN writeRegister(readRegisterBus(d3, 17), 17,
                           BitOr(BitAnd(readRegister(d3, 17), 31), pa))

\* setPowerLevel without the clamp.
setPowerLevel_unclamped(d, power) ==
  LET d1 == writeRegister(readRegisterBus(d, 17), 17,
                          BitOr(BitAnd(readRegister(d, 17), 224), power))
  IN [d1 EXCEPT !.powerLevel = power]

setPowerLevel(d, power) ==
  LET p == IF power > 31 THEN 31 ELSE power
      d1 == writeRegister(readRegisterBus(d, 17), 17,
                          BitOr(BitAnd(readRegister(d, 17), 224), p))
  IN [d1 EXCEPT !.powerLevel = p]

\* setPowerDBm accepting every value of -18..20 on either kind of device.
setPowerDBmReturn_anyDevice(d, dBm) ==
  IF dBm < -18 \/ dBm > 20 THEN -1 ELSE 0

\* setPowerDBm, the return value; dBm is an int8_t.
setPowerDBmReturn(d, dBm) ==
  IF dBm < -18 \/ dBm > 20 THEN -1
  ELSE IF ~d.highPowerDevice /\ dBm > 13 THEN -1
  ELSE IF d.highPowerDevice /\ dBm < -2 THEN -1
  ELSE 0

\* setPowerDBm using the offset of the 14..17 band in the 18..20 band too.
setPowerDBm_oneOffset(d, dBm) ==
  IF setPowerDBmReturn(d, dBm) = -1 THEN d
  ELSE IF ~d.highPowerDevice
  THEN writeRegister(d, 17, BitOr(128, U8(dBm + 18)))
  ELSE IF dBm >= -2 /\ dBm <= 13
  THEN setHighPowerSettings(
         [writeRegister(d, 17, BitOr(64, U8(dBm + 18)))
            EXCEPT !.highPowerSettings = FALSE], FALSE)
  ELSE IF dBm > 13 /\ dBm <= 17
  THEN setHighPowerSettings(
         [writeRegister(d, 17, BitOr(96, U8(dBm + 14)))
            EXCEPT !.highPowerSettings = FALSE], FALSE)
  ELSE setHighPowerSettings(
         [writeRegister(d, 17, BitOr(96, U8(dBm + 14)))
            EXCEPT !.highPowerSettings = TRUE], TRUE)

\* setPowerDBm, the effect on the device.
setPowerDBm(d, dBm) ==
  IF setPowerDBmReturn(d, dBm) = -1 THEN d
  ELSE IF ~d.highPowerDevice
  THEN writeRegister(d, 17, BitOr(128, U8(dBm + 18)))
  ELSE IF dBm >= -2 /\ dBm <= 13
  THEN LET d1 == writeRegister(d, 17, BitOr(64, U8(dBm + 18)))
           d2 == [d1 EXCEPT !.highPowerSettings = FALSE]
       IN setHighPowerSettings(d2, d2.highPowerSettings)
  ELSE IF dBm > 13 /\ dBm <= 17
  THEN LET d1 == writeRegister(d, 17, BitOr(96, U8(dBm + 14)))
           d2 == [d1 EXCEPT !.highPowerSettings = FALSE]
       IN setHighPowerSettings(d2, d2.highPowerSettings)
  ELSE LET d1 == writeRegister(d, 17, BitOr(96, U8(dBm + 11)))
           d2 == [d1 EXCEPT !.highPowerSettings = TRUE]
       IN setHighPowerSettings(d2, d2.highPowerSettings)

---------------------------------------------------------------------------
(* Configuration loader.                                                   *)

\* The base configuration table, with the values rfm69registers.h gives
\* to the names it uses.
\* Lines 290-291, 311-312, 332-333: switch to standby if TX/RX was active.
standbyIfActive(d) ==
  IF d.mode = RFM69_MODE_RX \/ d.mode = RFM69_MODE_TX
  THEN setMode(d, RFM69_MODE_STANDBY)
  ELSE d

setFrequency(d, frequency) ==
  LET d1 == standbyIfActive(d)
      f == frequency \div RFM69_FSTEP
      d2 == writeRegister(d1, 7, f \div 65536)
      d3 == writeRegister(d2, 8, f \div 256)
  IN writeRegister(d3, 9, f)

setFrequencyDeviation(d, frequency) ==
  LET d1 == standbyIfActive(d)
      f == frequency \div RFM69_FSTEP
      d2 == writeRegister(d1, 5, f \div 256)
  IN writeRegister(d2, 6, f)

\* bitrate is not 0: RFM69_XO / 0 is not defined.
setBitrate(d, bitrate) ==
  LET d1 == standbyIfActive(d)
      b == RFM69_XO \div bitrate
      d2 == writeRegister(d1, 3, b \div 256)
  IN writeRegister(d2, 4, b)

\* setAESEncryption enabling for every key length.
aesEnable_anyLength(aesKey, keyLength) == ~aesKey.null

\* Lines 796-797: (0 != aesKey) && (16 == keyLength).
aesEnable(aesKey, keyLength) == ~aesKey.null /\ keyLength = 16

\* Lines 805-814: the address of the first key register, then keyLength
\* bytes of the key, which the chip stores from 0x3E on.
aesKeyBurst(d, bytes, keyLength) ==
  [d EXCEPT
     !.bus = @ \o <<rf12_xferByte(BitOr(62, 128))>>
               \o [i \in 1..keyLength |-> rf12_xferByte(bytes[i])],
     !.reg = [a \in RegAddr |->
                IF a >= 62 /\ a < 62 + keyLength THEN U8(bytes[a - 61])
                ELSE @[a]]]

setAESEncryption(d, aesKey, keyLength) ==
  LET enable == aesEnable(aesKey, keyLength)
      d1 == setMode(d, RFM69_MODE_STANDBY)
      d2 == IF enable THEN aesKeyBurst(d1, aesKey.bytes, keyLength) ELSE d1
  IN writeRegister(readRegisterBus(d2, 61), 61,
                   BitOr(BitAnd(readRegister(d2, 61), 254),
                         IF enable THEN 1 ELSE 0))

rfm69_base_config ==
  << <<1, 4>>, <<2, 0>>, <<3, 13>>, <<4, 5>>, <<5, 1>>, <<6, 72>>,
     <<7, 217>>, <<8, 19>>, <<9, 51>>, <<24, 0>>, <<25, 75>>, <<44, 0>>,
     <<45, 6>>, <<46, 152>>, <<47, 222>>, <<48, 173>>, <<49, 190>>,
     <<50, 239>>, <<55, 208>>, <<56, 64>>, <<60, 143>>, <<88, 27>>,
     <<111, 48>> >>

RECURSIVE setCustomConfigFrom(_, _, _)
setCustomConfigFrom(d, config, i) ==
  IF i > Len(config) THEN d
  ELSE setCustomConfigFrom(writeRegister(d, config[i][1], config[i][2]),
                           config, i + 1)

setCustomConfig(d, config) == setCustomConfigFrom(d, config, 1)

clearFIFO_none(d) == d

clearFIFO(d) == writeRegister(d, 40, 16)

\* init clearing the FIFO before it configures the chip.
init_clearFirst(d) ==
  LET d1 == clearFIFO(d)
      d2 == setCustomConfig(d1, rfm69_base_config)
      d3 == setPASettings(d2, 0)
  IN [d3 EXCEPT !.inited = TRUE]

init(d) ==
  LET d1 == setCustomConfig(d, rfm69_base_config)
      d2 == setPASettings(d1, 0)
      d3 == clearFIFO(d2)
  IN [d3 EXCEPT !.inited = TRUE]

---------------------------------------------------------------------------
(* Receive pipeline.                                                       *)

\* readRSSI: _rssi = -readRegister(0x24) / 2, the division truncating
\* toward zero.
readRSSI_floor(d) ==
  [readRegisterBus(d, 36) EXCEPT !.rssi = (0 - readRegister(d, 36)) \div 2]

readRSSI(d) ==
  [readRegisterBus(d, 36) EXCEPT !.rssi = -(readRegister(d, 36) \div 2)]

\* waitForModeReady waiting for the PacketSent flag as well.
waitForModeReady_andPacketSent(d) == pollRegisterBus(pollRegisterBus(d, 39), 40)

\* waitForModeReady as one step: it polls register 0x27 at least once and
\* changes nothing else, however the wait ends.

waitForModeReady(d) == pollRegisterBus(d, 39)

\* The FIFO copied whole, whatever the size of the buffer.
drainFIFO_wholeFifo(st, fifo, stuck, fill, dataLength) ==
  [d |-> st.d, data |-> st.data \o fifo]

\* The FIFO loop of _receive.  fifo holds the bytes the chip still has;
\* stuck says that the chip keeps FifoNotEmpty set when it has none, and
\* fill is what register 0x00 then reads as.  st is [d, data].
RECURSIVE drainFIFO(_, _, _, _, _)
drainFIFO(st, fifo, stuck, fill, dataLength) ==
  LET notEmpty == Len(fifo) > 0 \/ stuck
      d1 == readRegisterBus(ChipSets(st.d, 40, IF notEmpty THEN 64 ELSE 0), 40)
  IN IF BitAnd(readRegister(d1, 40), 64) # 0 /\ Len(st.data) < dataLength
     THEN LET d2 == ChipSets(d1, 0, IF Len(fifo) > 0 THEN Head(fifo) ELSE fill)
              d3 == readRegisterBus(d2, 0)
          IN drainFIFO([d |-> d3, data |-> Append(st.data, readRegister(d3, 0))],
                       IF Len(fifo) > 0 THEN Tail(fifo) ELSE fifo,
                       stuck, fill, dataLength)
     ELSE [d |-> d1, data |-> st.data]

\* _receive.  chip is what the chip presents during the call:
\* [ready, fifo, stuck, fill, rssiReg].  The result is [d, data, n]: the
\* device after the call, the bytes stored into the buffer from its start,
\* and the return value.
_receive(d, dataLength, chip) ==
  LET d1 == IF d.mode # RFM69_MODE_RX
            THEN waitForModeReady(setMode(d, RFM69_MODE_RX))
            ELSE d
      d2 == readRegisterBus(ChipSets(d1, 36, chip.rssiReg), 36)
      d3 == readRegisterBus(d2, 39)
      d4 == readRegisterBus(ChipSets(d3, 40, IF chip.ready THEN 4 ELSE 0), 40)
  IN IF BitAnd(readRegister(d4, 40), 4) # 0
     THEN LET d5 == setMode(d4, RFM69_MODE_STANDBY)
              got == drainFIFO([d |-> d5, data |-> <<>>], chip.fifo,
                               chip.stuck, chip.fill, dataLength)
              d6 == IF got.d.autoReadRSSI THEN readRSSI(got.d) ELSE got.d
              d7 == setMode(d6, RFM69_MODE_RX)
              d8 == writeRegister(readRegisterBus(d7, 61), 61,
                                  BitOr(readRegister(d7, 61), 4))
          IN [d |-> d8, data |-> got.data, n |-> Len(got.data)]
     ELSE [d |-> d4, data |-> <<>>, n |-> 0]

\* memcpy(data, _rxBuffer, dataLength): the dataLength bytes copied.  Past
\* the end of _rxBuffer the read leaves the array; what is copied from
\* there is not defined and is given by fill.
memcpyRxBuffer(d, dataLength, fill) ==
  [i \in 1..dataLength |->
     IF i <= RFM69_MAX_PAYLOAD THEN d.rxBuffer[i] ELSE fill]

receive_freshFirst(d, dataLength, chip) == _receive(d, dataLength, chip)

\* receive.  The result is [d, data, n] as for _receive.
receive(d, dataLength, chip) ==
  IF d.rxBufferLength > 0
  THEN [d |-> [d EXCEPT !.rxBufferLength = 0],
        data |-> memcpyRxBuffer(d, dataLength, chip.fill),
        n |-> d.rxBufferLength]
  ELSE _receive(d, dataLength, chip)

\* The status registers are the chip's; between operations the record
\* keeps no value for them.
Settle(d) ==
  [d EXCEPT !.reg[0] = 0, !.reg[35] = 0, !.reg[36] = 0, !.reg[39] = 0,
            !.reg[40] = 0]

---------------------------------------------------------------------------
(* Inputs.                                                                 *)

\* setPowerDBm takes an int8_t: every accepted value, the values next to
\* the accepted range, and the ends of the type.
DbmInputs == (-20..22) \cup {-128, 127}

\* The ends of the bands of setPowerDBm and the values next to them.
DbmBandEnds == {-19, -18, -3, -2, 13, 14, 17, 18, 20, 21}

\* setMode takes an RFM69Mode: the five modes and the other values an
\* enumeration of this size can hold.
ModeInputs == 0..7

PowerInputs == {0, 31, 32}

ForcePAInputs == {0, 1, 14}

\* Register tables a caller may hand to setCustomConfig.
CustomConfigs ==
  { << <<17, 159>>, <<200, 1>> >>, << <<90, 93>>, <<92, 124>> >> }

\* _rxBuffer is not set by the constructor.
JunkFill == {0, 170}

\* The register file before the driver's first write: the values of the
\* chip after reset for the registers the driver reads back or the mode
\* registers, 0 elsewhere.
PowerOnRegs ==
  [a \in RegAddr |->
     CASE a = 1 -> 4 [] a = 17 -> 159 [] a = 19 -> 26 [] a = 61 -> 2
       [] a = 90 -> 85 [] a = 92 -> 112 [] OTHER -> 0]

Tick0 == [hi |-> 0, lo |-> 0]

NoLoc == [data |-> <<>>, dataLength |-> 0, timeEntry |-> Tick0,
          timeEntry2 |-> Tick0, iter |-> 0, senseStart |-> 0]

\* tv_sec as a uint32_t (base) plus the seconds gone by since the running
\* send was entered (sec), and tv_nsec.
Clock0 == [base |-> Tick0, sec |-> 0, nsec |-> 0]

---------------------------------------------------------------------------
(* The device after construction.                                          *)

Constructed(hp, fill) ==
  /\ mode = RFM69_MODE_STANDBY
  /\ highPowerDevice = hp
  /\ powerLevel = 0
  /\ rssi = -127
  /\ ookEnabled = FALSE
  /\ autoReadRSSI = TRUE
  /\ highPowerSettings = FALSE
  /\ csmaEnabled = FALSE
  /\ rxBufferLength = 0
  /\ rxBuffer = [i \in 1..RFM69_MAX_PAYLOAD |-> fill]
  /\ inited = FALSE
  /\ reg = PowerOnRegs
  /\ bus = <<>>
  /\ op = [name |-> "RFM69", a |-> 0, b |-> 0]
  /\ ret = 0
  /\ out = <<>>
  /\ pc = "idle"
  /\ clk = Clock0
  /\ loc = NoLoc

Init == \E hp \in BOOLEAN : Constructed(hp, 0)

---------------------------------------------------------------------------
(* Public operations, each one call from entry to return.                  *)

\* The call name(a, b) returns r, leaving device d and out in the buffer.
Returns(name, a, b, d, r, o) ==
  /\ Commit(Settle(d))
  /\ op' = [name |-> name, a |-> a, b |-> b]
  /\ ret' = r
  /\ out' = o
  /\ pc' = "idle"
  /\ clk' = Clock0
  /\ loc' = NoLoc

CallSetMode ==
  /\ pc = "idle"
  /\ \E m \in ModeInputs :
       Returns("setMode", m, 0, setMode(Begin, m), setModeReturn(Begin, m), <<>>)

CallSleep ==
  /\ pc = "idle"
  /\ Returns("sleep", 0, 0, sleep(Begin), 0, <<>>)

CallSetPowerDBm(inputs) ==
  /\ pc = "idle"
  /\ \E dBm \in inputs :
       Returns("setPowerDBm", dBm, 0, setPowerDBm(Begin, dBm),
               setPowerDBmReturn(Begin, dBm), <<>>)

CallSetPowerLevel ==
  /\ pc = "idle"
  /\ \E p \in PowerInputs :
       Returns("setPowerLevel", p, 0, setPowerLevel(Begin, p), 0, <<>>)

CallSetHighPowerSettings ==
  /\ pc = "idle"
  /\ \E e \in BOOLEAN :
       Returns("setHighPowerSettings", IF e THEN 1 ELSE 0, 0,
               setHighPowerSettings(Begin, e), 0, <<>>)

CallSetPASettings ==
  /\ pc = "idle"
  /\ \E f \in ForcePAInputs :
       Returns("setPASettings", f, 0, setPASettings(Begin, f), 0, <<>>)

CallInit ==
  /\ pc = "idle"
  /\ Returns("init", 0, 0, init(Begin), 1, <<>>)

CallSetCustomConfig ==
  /\ pc = "idle"
  /\ \E c \in CustomConfigs :
       Returns("setCustomConfig", Len(c), 0, setCustomConfig(Begin, c), 0, <<>>)

Next ==
  \/ CallSetMode
  \/ CallSleep
  \/ CallSetPowerDBm(DbmBandEnds)
  \/ CallSetPowerLevel
  \/ CallSetHighPowerSettings
  \/ CallSetPASettings
  \/ CallInit
  \/ CallSetCustomConfig

Spec == Init /\ [][Next]_vars

---------------------------------------------------------------------------
(* The clock.                                                              *)

\* HAL_GetTick: tv_sec + tv_nsec / 1000000, converted to uint32_t.
HAL_GetTick(c) ==
  U32Add(U32Add(c.base, c.sec), c.nsec \div NSEC_PER_TICK)

\* The condition below with a wait for the RSSI sample that no timeout
\* ends.
WithinTimeout_rssiForever(c, timeEntry, timeout) ==
  \/ timeout = TIMEOUT_RSSI_DONE
  \/ U32Less(U32Sub(HAL_GetTick(c), timeEntry), timeout)

\* (HAL_GetTick() - timeEntry) < timeout, the second half of the condition
\* of every bounded wait.
WithinTimeout(c, timeEntry, timeout) ==
  U32Less(U32Sub(HAL_GetTick(c), timeEntry), timeout)

\* The wall clock ms milliseconds later; tv_nsec stays below one second.
Advance(c, ms) ==
  LET total == c.nsec + ms * 1000000
  IN [c EXCEPT !.sec = @ + total \div 1000000000,
               !.nsec = total % 1000000000]

\* Milliseconds of real time since the second in which send was entered.
RealMs(c) == c.sec * 1000 + c.nsec \div 1000000

---------------------------------------------------------------------------
(* Inputs of the packet pipelines.                                         *)

\* Caps of the model.
MaxCsmaIter == 2
MaxSec == 2

\* Milliseconds within the second at which send is entered.
StartPhases == {0, 450, 950}

\* tv_sec, as a uint32_t, at which send is entered.
EpochBases == {Tick0}

\* Milliseconds by which the clock moves between two polls of a wait.
ClockSteps == {50}

\* Values of rand() % 10.
DelayChoices == {0, CSMA_DELAY_MODULUS - 1}

\* Lengths handed to send, and the payload: byte i is seed + i as uint8_t.
SendLengths == {0, 1, 3, 64, 65}
PayloadSeeds == {250}
Payload(len, seed) == [i \in 1..len |-> U8(seed + i)]

\* Lengths handed to receive.
RecvLengths == {0, 2, 3, 5, 64, 65}

\* Values the chip gives for the RSSI register 0x24.
RssiRegs == {171, 172}

\* What the chip presents to one _receive.
NoPacket ==
  [ready |-> FALSE, fifo |-> <<>>, stuck |-> FALSE, fill |-> 0, rssiReg |-> 255]
PacketOf(bytes, rssiReg) ==
  [ready |-> TRUE, fifo |-> bytes, stuck |-> FALSE, fill |-> 0,
   rssiReg |-> rssiReg]
\* The FIFO holds a byte while the PayloadReady flag is clear.
Unfinished ==
  [ready |-> FALSE, fifo |-> <<2, 17>>, stuck |-> FALSE, fill |-> 0,
   rssiReg |-> 171]
ChipRx ==
  {NoPacket, Unfinished, PacketOf(<<2, 17, 34>>, 171), PacketOf(<<4, 51, 68, 85, 102>>, 172)}

---------------------------------------------------------------------------
(* send, step by step.                                                     *)

Sending(name) == pc = name /\ op.name = "send"

\* A step of the running send: device d, position p, locals l, clock c.
Goes(d, p, l, c) ==
  /\ Commit(d)
  /\ pc' = p
  /\ loc' = l
  /\ clk' = c
  /\ UNCHANGED <<op, ret, out>>

\* Lines 569-576: entry, the switch to standby, the entry of
\* waitForModeReady.
SendEnter(lengths, phases) ==
  /\ pc = "idle"
  /\ \E len \in lengths, seed \in PayloadSeeds, phase \in phases,
        base \in EpochBases :
       LET c == [base |-> base, sec |-> 0, nsec |-> phase * 1000000]
           l == [NoLoc EXCEPT !.data = Payload(len, seed), !.dataLength = len]
       IN /\ op' = [name |-> "send", a |-> len, b |-> seed]
          /\ ret' = 0
          /\ out' = <<>>
          /\ clk' = c
          /\ IF mode # RFM69_MODE_SLEEP
             THEN /\ Commit(setMode(Begin, RFM69_MODE_STANDBY))
                  /\ loc' = [l EXCEPT !.timeEntry = HAL_GetTick(c)]
                  /\ pc' = "modeReady"
             ELSE /\ Commit(Begin)
                  /\ loc' = l
                  /\ pc' = "clear"

\* Lines 665-670: waitForModeReady ends on the ModeReady flag ...
SendModeReadySeen ==
  /\ Sending("modeReady")
  /\ Goes(Settle(pollRegisterBus(ChipSets(Dev, 39, 128), 39)), "clear",
          [loc EXCEPT !.timeEntry = Tick0], clk)

\* ... or on its timeout.
SendModeReadyTimeout ==
  /\ Sending("modeReady")
  /\ ~WithinTimeout(clk, loc.timeEntry, TIMEOUT_MODE_READY)
  /\ Goes(Settle(pollRegisterBus(ChipSets(Dev, 39, 0), 39)), "clear",
          [loc EXCEPT !.timeEntry = Tick0], clk)

\* Lines 594, 620: Restart RX.
restartRx(d) ==
  writeRegister(readRegisterBus(d, 61), 61,
                BitOr(BitAnd(readRegister(d, 61), 251), 32))

\* Lines 594-602: the entry into the CSMA wait.
senseChannel(d) == setMode(restartRx(d), RFM69_MODE_RX)

\* Lines 578-603: FIFO clear, the clamp and the length check, then either
\* the return of 0, the entry into the CSMA wait, or the way to the FIFO.
SendClear ==
  /\ Sending("clear")
  /\ LET d == clearFIFO(Dev)
         len == IF loc.dataLength > RFM69_MAX_PAYLOAD
                THEN RFM69_MAX_PAYLOAD ELSE loc.dataLength
         l == [loc EXCEPT !.dataLength = len]
     IN IF len = 0
        THEN Returns("send", op.a, op.b, d, 0, <<>>)
        ELSE IF d.csmaEnabled
        THEN Goes(Settle(senseChannel(d)), "rssiDone",
                  [l EXCEPT !.timeEntry = HAL_GetTick(clk),
                            !.senseStart = RealMs(clk)], clk)
        ELSE Goes(Settle(d), "push", l, clk)

\* Line 603: the wait for the RSSI sample ends on the RssiDone flag ...
SendRssiDoneSeen ==
  /\ Sending("rssiDone")
  /\ Goes(Settle(pollRegisterBus(ChipSets(Dev, 35, 2), 35)), "csma", loc, clk)

\* ... or after 10 ms.
SendRssiDoneTimeout ==
  /\ Sending("rssiDone")
  /\ ~WithinTimeout(clk, loc.timeEntry, TIMEOUT_RSSI_DONE)
  /\ Goes(Settle(pollRegisterBus(ChipSets(Dev, 35, 0), 35)), "csma", loc, clk)

\* Lines 1005-1015: channelFree, the device after its readRSSI when the
\* chip gives v for register 0x24.
channelFree(d, v) == readRSSI(ChipSets(d, 36, v))

channelFreeReturn(d, v) == channelFree(d, v).rssi < CSMA_RSSI_THRESHOLD

\* The sensing loop left with the module still in receive mode.
leaveSensing_none(d) == d

\* Line 626: setMode(RFM69_MODE_STANDBY) after the sensing loop.
leaveSensing(d) == setMode(d, RFM69_MODE_STANDBY)

\* Lines 605, 626: the loop ends because the channel is free ...
SendCsmaFree ==
  /\ Sending("csma")
  /\ \E v \in RssiRegs :
       /\ channelFreeReturn(Dev, v)
       /\ Goes(Settle(leaveSensing(channelFree(Dev, v))), "push", loc, clk)

\* ... or because the CSMA timeout is over.
SendCsmaTimeout ==
  /\ Sending("csma")
  /\ ~WithinTimeout(clk, loc.timeEntry, TIMEOUT_CSMA_READY)
  /\ \E v \in RssiRegs :
       /\ ~channelFreeReturn(Dev, v)
       /\ Goes(Settle(leaveSensing(channelFree(Dev, v))), "push", loc, clk)

\* Line 605: the channel is busy and the timeout is not over: the body.
SendCsmaBusy ==
  /\ Sending("csma")
  /\ WithinTimeout(clk, loc.timeEntry, TIMEOUT_CSMA_READY)
  /\ loc.iter < MaxCsmaIter
  /\ \E v \in RssiRegs :
       /\ ~channelFreeReturn(Dev, v)
       /\ Goes(Settle(channelFree(Dev, v)), "body",
               [loc EXCEPT !.iter = @ + 1], clk)

\* Lines 613-615: _receive(_rxBuffer, RFM69_MAX_PAYLOAD) stores into
\* _rxBuffer from its start; a result above 0 becomes _rxBufferLength.
\* got is the result [d, data, n] of that _receive.
\* The stash keeping the length of a packet it already holds.
\* The capture asking for as many bytes as the FIFO of the chip can hold.
capture_fifoSize(d, chip) == _receive(d, 66, chip)

\* Line 613: _receive(_rxBuffer, RFM69_MAX_PAYLOAD).
capture(d, chip) == _receive(d, RFM69_MAX_PAYLOAD, chip)

stash_keepLength(got) ==
  [got.d EXCEPT
     !.rxBuffer = [i \in 1..RFM69_MAX_PAYLOAD |->
                     IF i <= got.n THEN got.data[i] ELSE @[i]],
     !.rxBufferLength = IF @ > 0 THEN @ ELSE got.n]

stash(got) ==
  [got.d EXCEPT
     !.rxBuffer = [i \in 1..RFM69_MAX_PAYLOAD |->
                     IF i <= got.n THEN got.data[i] ELSE @[i]],
     !.rxBufferLength = IF got.n > 0 THEN got.n ELSE @]

\* Lines 606-624: the delay, the receive attempt and, after a packet, the
\* restart of the receiver and the entry into the second RSSI wait.
\* The timestamp of the second RSSI wait stored into the timeEntry of the
\* sensing loop as well.
enterRssiWait2_sameEntry(l, t) ==
  [l EXCEPT !.timeEntry = t, !.timeEntry2 = t]

\* Line 621: uint32_t timeEntry = HAL_GetTick() in the block of the if: a
\* variable of its own, which hides the timeEntry of line 602.
enterRssiWait2(l, t) == [l EXCEPT !.timeEntry2 = t]

SendBody(chips) ==
  /\ Sending("body")
  /\ \E r \in DelayChoices, chip \in chips :
       \E got \in {capture(Dev, chip)} :
         \E d \in {stash(got)} :
           IF got.n > 0
           THEN Goes(Settle(restartRx(d)), "rssiDone2",
                     enterRssiWait2(loc, HAL_GetTick(Advance(clk, r))),
                     Advance(clk, r))
           ELSE Goes(Settle(d), "csma", loc, Advance(clk, r))

\* Line 622: the second RSSI wait, on its own timeEntry.
SendRssiDone2Seen ==
  /\ Sending("rssiDone2")
  /\ Goes(Settle(pollRegisterBus(ChipSets(Dev, 35, 2), 35)), "csma",
          [loc EXCEPT !.timeEntry2 = Tick0], clk)

SendRssiDone2Timeout ==
  /\ Sending("rssiDone2")
  /\ ~WithinTimeout(clk, loc.timeEntry2, TIMEOUT_RSSI_DONE)
  /\ Goes(Settle(pollRegisterBus(ChipSets(Dev, 35, 0), 35)), "csma",
          [loc EXCEPT !.timeEntry2 = Tick0], clk)

\* Lines 629-639: the FIFO address, the length and the payload, byte by
\* byte.
pushFIFO_noLength(d, data, dataLength) ==
  [d EXCEPT !.bus = @ \o <<rf12_xferByte(BitOr(0, 128))>>
                      \o [i \in 1..dataLength |-> rf12_xferByte(data[i])]]

pushFIFO(d, data, dataLength) ==
  [d EXCEPT !.bus = @ \o <<rf12_xferByte(BitOr(0, 128)),
                           rf12_xferByte(dataLength)>>
                      \o [i \in 1..dataLength |-> rf12_xferByte(data[i])]]

\* Lines 629-645: the FIFO write, the switch to transmit, the entry of
\* waitForPacketSent.
SendPush ==
  /\ Sending("push")
  /\ Goes(setMode(pushFIFO(Dev, loc.data, loc.dataLength), RFM69_MODE_TX),
          "packetSent", [loc EXCEPT !.timeEntry = HAL_GetTick(clk)], clk)

\* send returning in transmit mode.
standbyAfterSend_none(d) == d

\* Lines 647-648: go to standby.
standbyAfterSend(d) == setMode(d, RFM69_MODE_STANDBY)

\* Lines 827-832, 647-650: waitForPacketSent ends on the PacketSent flag ...
SendPacketSentSeen ==
  /\ Sending("packetSent")
  /\ Returns("send", op.a, op.b,
             standbyAfterSend(pollRegisterBus(ChipSets(Dev, 40, 8), 40)),
             loc.dataLength, <<>>)

\* ... or on its timeout; either way send goes to standby and returns
\* dataLength.
SendPacketSentTimeout ==
  /\ Sending("packetSent")
  /\ ~WithinTimeout(clk, loc.timeEntry, TIMEOUT_PACKET_SENT)
  /\ Returns("send", op.a, op.b,
             standbyAfterSend(pollRegisterBus(ChipSets(Dev, 40, 0), 40)),
             loc.dataLength, <<>>)

\* The timeEntry and the timeout of the wait send is in, if it is in one.
LiveWait ==
  CASE pc = "modeReady" -> <<loc.timeEntry, TIMEOUT_MODE_READY>>
    [] pc = "rssiDone" -> <<loc.timeEntry, TIMEOUT_RSSI_DONE>>
    [] pc = "csma" -> <<loc.timeEntry, TIMEOUT_CSMA_READY>>
    [] pc = "rssiDone2" -> <<loc.timeEntry2, TIMEOUT_RSSI_DONE>>
    [] pc = "packetSent" -> <<loc.timeEntry, TIMEOUT_PACKET_SENT>>
    [] OTHER -> <<Tick0, 0>>

\* Time passes while send polls: the clock moves on between two polls of
\* a wait that has not yet timed out.
Tick(steps) ==
  /\ pc \in {"modeReady", "rssiDone", "csma", "rssiDone2", "packetSent"}
  /\ WithinTimeout(clk, LiveWait[1], LiveWait[2])
  /\ clk.sec < MaxSec
  /\ \E ms \in steps : clk' = Advance(clk, ms)
  /\ UNCHANGED <<mode, highPowerDevice, powerLevel, rssi, autoReadRSSI,
                 ookEnabled, highPowerSettings, csmaEnabled, rxBuffer,
                 rxBufferLength, inited, reg, bus, op, ret, out, pc, loc>>

---------------------------------------------------------------------------
(* The other operations of the packet pipelines.                           *)

CallReceive(lengths, chips) ==
  /\ pc = "idle"
  /\ \E len \in lengths, chip \in chips :
       \E got \in {receive(Begin, len, chip)} :
         Returns("receive", len, 0, got.d, got.n, got.data)

CallSetCSMA ==
  /\ pc = "idle"
  /\ \E e \in BOOLEAN :
       Returns("setCSMA", IF e THEN 1 ELSE 0, 0,
               [Begin EXCEPT !.csmaEnabled = e], 0, <<>>)

\* One step of send, for the given lengths, start phases and chip answers.
SendStep(lengths, phases, chips) ==
  \/ SendEnter(lengths, phases)
  \/ SendModeReadySeen
  \/ SendModeReadyTimeout
  \/ SendClear
  \/ SendRssiDoneSeen
  \/ SendRssiDoneTimeout
  \/ SendCsmaFree
  \/ SendCsmaTimeout
  \/ SendCsmaBusy
  \/ SendBody(chips)
  \/ SendRssiDone2Seen
  \/ SendRssiDone2Timeout
  \/ SendPush
  \/ SendPacketSentSeen
  \/ SendPacketSentTimeout

\* send with the clock in detail: every start phase, fine clock steps, a
\* few lengths and chip answers.
TimedLengths == {0, 2, 65}

TimedChips == {NoPacket, PacketOf(<<2, 17, 34>>, 171)}

NextSend ==
  \/ SendStep(TimedLengths, StartPhases, TimedChips)
  \/ Tick(ClockSteps)
  \/ CallSetCSMA
  \/ CallSleep

InitSend == Constructed(FALSE, 170)

SpecSend == InitSend /\ [][NextSend]_vars

\* The steps of a running send that wait for no answer of the chip: the
\* clock moving on, a wait timing out, and the code between the waits.
SendProgress ==
  \/ Tick(ClockSteps)
  \/ SendModeReadyTimeout
  \/ SendClear
  \/ SendRssiDoneTimeout
  \/ SendCsmaTimeout
  \/ SendBody(TimedChips)
  \/ SendRssiDone2Timeout
  \/ SendPush
  \/ SendPacketSentTimeout

\* The driver runs and the clock advances; a flag of the chip need never
\* be seen and the channel need never be free.
SpecSendFair == SpecSend /\ WF_vars(SendProgress)

\* The packet pipelines with the payloads in detail: every length, one
\* start phase, coarse clock steps.
NextPacket ==
  \/ SendStep(SendLengths, {0}, ChipRx)
  \/ Tick({TIMEOUT_MODE_READY})
  \/ CallReceive(RecvLengths, ChipRx)
  \/ CallSetCSMA
  \/ CallSleep

InitPacket == \E fill \in JunkFill : Constructed(FALSE, fill)

SpecPacket == InitPacket /\ [][NextPacket]_vars

---------------------------------------------------------------------------
(* Two devices on a loopback: the bytes the sending device clocks into its *)
(* FIFO (lines 629-639) are the bytes the FIFO of the receiving device     *)
(* holds, with PayloadReady set.  The state is the receiving device.       *)

LoopLengths == {1, 2, 63, 64}
LoopSeeds == {7, 250}
LoopBuffers == {64, 65, 70}

\* The bytes of a FIFO write burst: the frames after the address frame.
FifoBurst(frames) == [i \in 1..(Len(frames) - 1) |-> frames[i + 1][1]]

Loopback(data, dataLength) ==
  PacketOf(FifoBurst(pushFIFO([Begin EXCEPT !.bus = <<>>], data,
                              dataLength).bus), 171)

CallReceiveLoopback ==
  /\ pc = "idle"
  /\ \E n \in LoopLengths, seed \in LoopSeeds, len \in LoopBuffers :
       \E got \in {receive(Begin, len, Loopback(Payload(n, seed), n))} :
         Returns("receive", len, n * 256 + seed, got.d, got.n, got.data)

CallSetAutoReadRSSI ==
  /\ pc = "idle"
  /\ \E e \in BOOLEAN :
       Returns("setAutoReadRSSI", IF e THEN 1 ELSE 0, 0,
               [Begin EXCEPT !.autoReadRSSI = e], 0, <<>>)

NextLoop ==
  \/ CallReceiveLoopback
  \/ CallSetAutoReadRSSI
  \/ CallReceive(RecvLengths, {NoPacket})
  \/ CallSetMode
  \/ CallInit

InitLoop == \E fill \in JunkFill : Constructed(FALSE, fill)

SpecLoop == InitLoop /\ [][NextLoop]_vars

---------------------------------------------------------------------------
(* The register access layer called directly, on a transport whose chip    *)
(* keeps every register as written.                                        *)

\* The call name(a, b) returns r and the chip keeps its registers.
ReturnsKept(name, a, b, d, r, o) ==
  /\ Commit(d)
  /\ op' = [name |-> name, a |-> a, b |-> b]
  /\ ret' = r
  /\ out' = o
  /\ pc' = "idle"
  /\ clk' = Clock0
  /\ loc' = NoLoc

RegisterInputs == {0, 17, 127, 128, 200, 255}
ValueInputs == {0, 85, 255}

CallReadRegister ==
  /\ pc = "idle"
  /\ \E r \in RegisterInputs :
       ReturnsKept("readRegister", r, 0, readRegisterBus(Begin, r),
                   readRegister(Begin, r), <<>>)

CallWriteRegister ==
  /\ pc = "idle"
  /\ \E r \in RegisterInputs, value \in ValueInputs :
       ReturnsKept("writeRegister", r, value, writeRegister(Begin, r, value),
                   0, <<>>)

NextReg ==
  \/ CallReadRegister
  \/ CallWriteRegister
  \/ CallSleep

SpecReg == Init /\ [][NextReg]_vars

---------------------------------------------------------------------------
(* Carrier frequency, frequency deviation and bitrate.                     *)

FrequencyInputs == {0, 433920000, 868300000}
DeviationInputs == {0, 20000}
BitrateInputs == {1, 9600, 32000001}

CallSetFrequency ==
  /\ pc = "idle"
  /\ \E f \in FrequencyInputs :
       Returns("setFrequency", f, 0, setFrequency(Begin, f), 0, <<>>)

CallSetFrequencyDeviation ==
  /\ pc = "idle"
  /\ \E f \in DeviationInputs :
       Returns("setFrequencyDeviation", f, 0, setFrequencyDeviation(Begin, f),
               0, <<>>)

CallSetBitrate ==
  /\ pc = "idle"
  /\ \E b \in BitrateInputs :
       Returns("setBitrate", b, 0, setBitrate(Begin, b), 0, <<>>)

NextTune ==
  \/ CallSetFrequency
  \/ CallSetFrequencyDeviation
  \/ CallSetBitrate
  \/ CallSetMode
  \/ CallSleep

SpecTune == Init /\ [][NextTune]_vars

---------------------------------------------------------------------------
(* AES encryption.                                                         *)

\* The buffers handed to setAESEncryption: the null pointer and two keys,
\* each of 17 bytes so that a keyLength of 17 reads inside the buffer.
AesKeys ==
  << [null |-> TRUE, bytes |-> <<>>],
     [null |-> FALSE, bytes |-> [i \in 1..17 |-> i]],
     [null |-> FALSE, bytes |-> [i \in 1..17 |-> 256 - 3 * i]] >>

KeyLengths == {0, 15, 16, 17}

\* Values of register 0x3D before the call.
PacketConfig2Values == {0, 2, 117, 255}

CallSetAESEncryption ==
  /\ pc = "idle"
  /\ \E k \in 1..Len(AesKeys), keyLength \in KeyLengths :
       Returns("setAESEncryption", k, keyLength,
               setAESEncryption(Begin, AesKeys[k], keyLength),
               IF aesEnable(AesKeys[k], keyLength) THEN 1 ELSE 0, <<>>)

CallWritePacketConfig2 ==
  /\ pc = "idle"
  /\ \E value \in PacketConfig2Values :
       Returns("writeRegister", 61, value, writeRegister(Begin, 61, value),
               0, <<>>)

NextAes ==
  \/ CallSetAESEncryption
  \/ CallWritePacketConfig2
  \/ CallSetMode

SpecAes == Init /\ [][NextAes]_vars

---------------------------------------------------------------------------
(* receive alone, with chips whose flags and FIFO disagree.                *)

\* FifoNotEmpty stays set after the last byte; the FIFO register then
\* reads 0xEE.
StuckFifo ==
  [ready |-> TRUE, fifo |-> <<4, 51>>, stuck |-> TRUE, fill |-> 238,
   rssiReg |-> 172]

DrainChips ==
  {NoPacket, PacketOf(<<>>, 171), PacketOf(<<2, 17, 34>>, 171), StuckFifo}

NextDrain ==
  \/ CallReceive(RecvLengths, DrainChips)
  \/ CallSetAutoReadRSSI
  \/ CallSetMode

SpecDrain == InitLoop /\ [][NextDrain]_vars

---------------------------------------------------------------------------
(* send and receive with chips that hand out more than a stash full.       *)

\* The FIFO of the chip filled to its 66 bytes.
FullFifo == PacketOf([i \in 1..66 |-> i], 171)

StashChips == {NoPacket, StuckFifo, FullFifo}

NextStash ==
  \/ SendStep({1}, {0}, StashChips)
  \/ Tick({TIMEOUT_MODE_READY})
  \/ CallReceive({0, 64}, StashChips)
  \/ CallSetCSMA

SpecStash == InitPacket /\ [][NextStash]_vars

\* The power controller alone, over every int8_t value of interest.
NextPower ==
  \/ CallSetPowerDBm(DbmInputs)
  \/ CallSetMode
  \/ CallSetHighPowerSettings

SpecPower == Init /\ [][NextPower]_vars

---------------------------------------------------------------------------
(* Claims.                                                                 *)

\* The fields of the driver object.
DriverFields ==
  <<mode, highPowerDevice, powerLevel, rssi, autoReadRSSI, ookEnabled,
    highPowerSettings, csmaEnabled, rxBuffer, rxBufferLength, inited>>

\* The dBm values setPowerDBm accepts on this device.
AcceptedDBm == IF highPowerDevice THEN -2..20 ELSE -18..13

\* The frames and the register values the power table asks for.
BandFrames(dBm) ==
  IF ~highPowerDevice THEN << <<145, 128 + (dBm + 18)>> >>
  ELSE IF dBm <= 13
  THEN << <<145, 64 + (dBm + 18)>>, <<218, 85>>, <<220, 112>> >>
  ELSE IF dBm <= 17
  THEN << <<145, 96 + (dBm + 14)>>, <<218, 85>>, <<220, 112>> >>
  ELSE << <<145, 96 + (dBm + 11)>>, <<218, 93>>, <<220, 124>> >>

BandLevel(dBm) ==
  IF ~highPowerDevice \/ dBm <= 13 THEN dBm + 18
  ELSE IF dBm <= 17 THEN dBm + 14 ELSE dBm + 11

\* C1: for every accepted dBm setPowerDBm returns 0 and puts on the bus
\* exactly the frames of its band: register 0x11 := amplifier bits |
\* level, with the level of the band inside 0..31, and on a high-power
\* device the boost registers 0x5A, 0x5C with the values of the band.
C1_BandMapping ==
  (pc = "idle" /\ op.name = "setPowerDBm" /\ op.a \in AcceptedDBm) =>
    /\ ret = 0
    /\ bus = BandFrames(op.a)
    /\ reg[17] = bus[1][2]
    /\ BandLevel(op.a) \in 0..31
    /\ reg[17] % 32 = BandLevel(op.a)
    /\ reg[17] \div 32 = (IF ~highPowerDevice THEN 4
                           ELSE IF op.a <= 13 THEN 2 ELSE 3)
    /\ (highPowerDevice => (reg[90] = bus[2][2] /\ reg[92] = bus[3][2]))

C1_Witness ==
  /\ pc = "idle" /\ op.name = "setPowerDBm" /\ op.a = 20 /\ highPowerDevice
  /\ ret = 0 /\ reg[17] = 127 /\ reg[90] = 93 /\ reg[92] = 124

\* C2: a dBm outside the range of the device makes setPowerDBm return -1
\* with no frame on the bus, no register changed and no driver field
\* changed.
C2_RejectedUntouched ==
  [][(pc' = "idle" /\ op'.name = "setPowerDBm" /\ op'.a \notin AcceptedDBm) =>
       (/\ ret' = -1
        /\ bus' = <<>>
        /\ reg' = reg
        /\ DriverFields' = DriverFields)]_vars

C2_Witness ==
  /\ pc = "idle" /\ op.name = "setPowerDBm" /\ op.a = 14 /\ ~highPowerDevice
  /\ ret = -1 /\ bus = <<>>

\* C9: between operations _mode is the mode held by the op-mode
\* register 0x01.
C9_ModeIsOpModeRegister ==
  pc = "idle" => mode = (reg[1] \div 4) % 8

\* C10: setMode with the current mode or a value above RFM69_MODE_RX
\* puts nothing on the bus, changes no register and no field and returns
\* the current mode; the second of two setMode calls with the same
\* argument does not write register 0x01.
C10_SetModeNoOp ==
  [][/\ ((pc' = "idle" /\ op'.name = "setMode"
          /\ (op'.a = mode \/ op'.a > RFM69_MODE_RX)) =>
           (/\ bus' = <<>>
            /\ ret' = mode
            /\ reg' = reg
            /\ DriverFields' = DriverFields))
      /\ ((pc = "idle" /\ op.name = "setMode" /\ pc' = "idle"
           /\ op'.name = "setMode" /\ op'.a = op.a) =>
           (\A i \in 1..Len(bus') : bus'[i][1] # 129))]_vars

C10_Witness ==
  /\ pc = "idle" /\ op.name = "setMode" /\ bus = <<>>
  /\ op.a = mode /\ mode = RFM69_MODE_RX /\ reg[1] = 16

---------------------------------------------------------------------------
(* The packet pipelines.                                                   *)

FifoWrite(len, seed) ==
  <<rf12_xferByte(128), rf12_xferByte(Min(len, RFM69_MAX_PAYLOAD))>>
    \o [i \in 1..Min(len, RFM69_MAX_PAYLOAD) |-> <<Payload(len, seed)[i]>>]

IsByteFrame(f) == Len(f) = 1

ByteFrames == SelectSeq(bus, IsByteFrame)

TransmitWrite == <<129, RFM69_MODE_TX * 4>>

StandbyWrite == <<129, RFM69_MODE_STANDBY * 4>>

ModeReadyPoll == <<39, 0>>

FifoClearWrite == <<168, 16>>

SendReturned == pc = "idle" /\ op.name = "send"

ReceiveReturned == pc = "idle" /\ op.name = "receive"

\* C3: with CSMA enabled, when send has pushed the payload and entered
\* transmit, either the most recent RSSI sample is below the threshold or
\* at least 500 ms of real time have passed since sensing started.
C3_NoPushWhileBusy ==
  (Sending("packetSent") /\ csmaEnabled) =>
    (\/ rssi < CSMA_RSSI_THRESHOLD
     \/ RealMs(clk) - loc.senseStart >= TIMEOUT_CSMA_READY)

\* C4: while the clock advances, a send that has started returns, whatever
\* the chip answers, with a count and no error, and a send of at least one
\* byte has by then pushed the payload and entered transmit.
C4_SendReturns ==
  (op.name = "send" /\ pc # "idle") ~>
    (/\ SendReturned
     /\ ret = Min(op.a, RFM69_MAX_PAYLOAD)
     /\ (op.a >= 1 =>
           \E i \in 1..Len(bus) :
             /\ bus[i] = TransmitWrite
             /\ i > Len(FifoWrite(op.a, op.b))
             /\ SubSeq(bus, i - Len(FifoWrite(op.a, op.b)), i - 1)
                  = FifoWrite(op.a, op.b)))

C4_Witness ==
  /\ SendReturned
  /\ csmaEnabled
  /\ rssi >= CSMA_RSSI_THRESHOLD
  /\ rxBufferLength > 0
  /\ ret = RFM69_MAX_PAYLOAD
  /\ \E i \in 1..Len(bus) : bus[i] = TransmitWrite

C6_StashTruncated ==
  (ReceiveReturned /\ bus = <<>>) => (ret <= op.a /\ Len(out) = ret)

\* C7: a send of L >= 1 bytes returns min(L, 64), and the byte frames it
\* put on the bus are 0x80, min(L, 64) and the first min(L, 64) payload
\* bytes in order, directly before the switch to transmit.
C7_SendFifoWrite ==
  (SendReturned /\ op.a >= 1) =>
    /\ ret = Min(op.a, RFM69_MAX_PAYLOAD)
    /\ ByteFrames = FifoWrite(op.a, op.b)
    /\ \E i \in 1..Len(bus) :
         /\ bus[i] = TransmitWrite
         /\ i > Len(ByteFrames)
         /\ SubSeq(bus, i - Len(ByteFrames), i - 1) = ByteFrames

C7_Witness ==
  /\ SendReturned
  /\ op.a = RFM69_MAX_PAYLOAD + 1
  /\ ret = RFM69_MAX_PAYLOAD
  /\ Len(ByteFrames) = RFM69_MAX_PAYLOAD + 2
  /\ ByteFrames[2] = <<RFM69_MAX_PAYLOAD>>
  /\ ByteFrames[RFM69_MAX_PAYLOAD + 2] = <<U8(250 + RFM69_MAX_PAYLOAD)>>

\* C8, as stated: a send of zero bytes returns 0 and puts nothing on the
\* bus.
C8_NoBusActivity ==
  (SendReturned /\ op.a = 0) => (ret = 0 /\ bus = <<>>)

\* C8, amended: a send of zero bytes returns 0 without a FIFO write and
\* without a switch to transmit; from sleep its only bus frame is the FIFO
\* clear, otherwise the FIFO clear follows the mode-ready poll, itself
\* preceded by the switch to standby when the mode was another one.
C8_ZeroLengthClearsOnly ==
  (SendReturned /\ op.a = 0) =>
    /\ ret = 0
    /\ ByteFrames = <<>>
    /\ IF mode = RFM69_MODE_SLEEP
       THEN bus = <<FifoClearWrite>>
       ELSE /\ mode = RFM69_MODE_STANDBY
            /\ bus \in {<<ModeReadyPoll, FifoClearWrite>>,
                        <<StandbyWrite, ModeReadyPoll, FifoClearWrite>>}

C8_Witness ==
  /\ SendReturned
  /\ op.a = 0
  /\ ret = 0
  /\ bus = <<StandbyWrite, ModeReadyPoll, FifoClearWrite>>

---------------------------------------------------------------------------
(* Mode changes and the boost registers.                                   *)

OpModeWrite(m) == <<129, m * 4>>

BoostDisabledWrites == << <<218, 85>>, <<220, 112>> >>

BoostEnabledWrites == << <<218, 93>>, <<220, 124>> >>

\* A step that is a call of setMode changing the mode.
ModeChange ==
  /\ pc = "idle"
  /\ pc' = "idle"
  /\ op'.name = "setMode"
  /\ op'.a # mode
  /\ op'.a <= RFM69_MODE_RX

\* C11: a mode change on a high-power device with the boost flag set
\* writes the op-mode register and then, into receive, the boost-disabled
\* values, into transmit, the boost-enabled values; every other mode
\* change writes the op-mode register only.
C11_BoostOnModeChange ==
  [][ModeChange =>
       (bus' = <<OpModeWrite(op'.a)>> \o
                 (IF highPowerDevice /\ highPowerSettings
                  THEN IF op'.a = RFM69_MODE_RX THEN BoostDisabledWrites
                       ELSE IF op'.a = RFM69_MODE_TX THEN BoostEnabledWrites
                       ELSE <<>>
                  ELSE <<>>))]_vars

C11_Witness ==
  /\ pc = "idle"
  /\ op.name = "setMode"
  /\ op.a = RFM69_MODE_RX
  /\ highPowerDevice
  /\ highPowerSettings
  /\ bus = <<OpModeWrite(RFM69_MODE_RX)>> \o BoostDisabledWrites
  /\ reg[90] = 85
  /\ reg[92] = 112

\* C12: on a device that is not a high-power device the boost flag is
\* false after every operation.
C12_BoostFlagOnlyHighPower ==
  (pc = "idle" /\ ~highPowerDevice) => ~highPowerSettings

---------------------------------------------------------------------------
(* The stash.                                                              *)

\* A step of send in which the receive attempt of the CSMA wait brought a
\* packet.
Capture == Sending("body") /\ pc' = "rssiDone2"

\* The first n bytes of _rxBuffer.
Stashed(n) == SubSeq(rxBuffer, 1, n)

\* C13: whatever the stash held before, after a capture it holds the
\* packet the chip presented in that capture, with that packet's length;
\* a receive called while the stash is full returns the length of the
\* stash and copies the stashed bytes in order.
C13_SingleSlot ==
  [][/\ (Capture =>
           \E chip \in ChipRx :
             /\ Len(chip.fifo) > 0
             /\ rssi' = -(chip.rssiReg \div 2)
             /\ Len(bus') > Len(bus) + 2 * Len(chip.fifo)
             /\ rxBufferLength' = Len(chip.fifo)
             /\ SubSeq(rxBuffer', 1, Len(chip.fifo)) = chip.fifo)
     /\ ((pc = "idle" /\ pc' = "idle" /\ op'.name = "receive"
            /\ rxBufferLength > 0) =>
           (/\ ret' = rxBufferLength
            /\ rxBuffer' = rxBuffer
            /\ \A i \in 1..Min(rxBufferLength, op'.a) :
                 out'[i] = rxBuffer[i]))]_vars

\* The 3-byte packet was captured over the stashed 5-byte one.
C13_Witness ==
  /\ Sending("rssiDone2")
  /\ loc.iter = 2
  /\ rxBufferLength = 3
  /\ Stashed(5) = <<2, 17, 34, 85, 102>>

---------------------------------------------------------------------------
(* receive.                                                                *)

\* A step that is a call of receive to which the chip presents chip.
ReceiveWith(chip) ==
  /\ pc = "idle"
  /\ pc' = "idle"
  /\ op'.name = "receive"
  /\ \E got \in {receive(Begin, op'.a, chip)} :
       /\ Dev' = Settle(got.d)
       /\ ret' = got.n
       /\ out' = got.data

\* The three register reads with which _receive looks for a packet.
FlagReads == << <<36, 0>>, <<39, 0>>, <<40, 0>> >>

\* C14: a receive with the stash empty and the PayloadReady flag clear
\* returns 0 and stores nothing; in receive mode its bus frames are the
\* three flag reads, in another mode they are preceded by the switch to
\* receive and the one poll of the mode-ready flag.
C14_ReceiveNothing ==
  [][\A chip \in ChipRx :
       (~chip.ready /\ rxBufferLength = 0 /\ ReceiveWith(chip)) =>
         (/\ ret' = 0
          /\ out' = <<>>
          /\ rxBuffer' = rxBuffer
          /\ rxBufferLength' = 0
          /\ bus' = IF mode = RFM69_MODE_RX
                    THEN FlagReads
                    ELSE <<OpModeWrite(RFM69_MODE_RX)>>
                           \o (IF highPowerDevice /\ highPowerSettings
                               THEN BoostDisabledWrites ELSE <<>>)
                           \o <<ModeReadyPoll>> \o FlagReads)]_vars

C14_Witness ==
  /\ ReceiveReturned
  /\ ret = 0
  /\ out = <<>>
  /\ mode = RFM69_MODE_RX
  /\ bus = <<OpModeWrite(RFM69_MODE_RX), ModeReadyPoll>> \o FlagReads

\* A receive that took its packet from the loopback has returned.
LoopReturned == ReceiveReturned /\ op.b > 0

LoopSent == Payload(op.b \div 256, op.b % 256)

\* C15: what receive stores and returns for a packet taken from the
\* loopback is the payload handed to send, with its length.
C15_RoundTrip == LoopReturned => (ret = Len(LoopSent) /\ out = LoopSent)

\* What the loopback delivers: the length byte and then the payload, cut to
\* the size of the buffer.
C15_LengthPrefixed ==
  LoopReturned =>
    /\ ret = Min(Len(LoopSent) + 1, op.a)
    /\ out = SubSeq(<<Len(LoopSent)>> \o LoopSent, 1, ret)

---------------------------------------------------------------------------
(* Register access.                                                        *)

RegisterCall ==
  pc = "idle" /\ pc' = "idle" /\ op'.name \in {"readRegister", "writeRegister"}

\* C16: readRegister and writeRegister called with an address above 0x7F
\* put no frame on the bus and change no chip register and no field of the
\* driver; readRegister returns 0.
C16_AddressAbove7F ==
  [][(RegisterCall /\ op'.a > 127) =>
       (/\ bus' = <<>>
        /\ reg' = reg
        /\ DriverFields' = DriverFields
        /\ ret' = 0)]_vars

C16_Witness ==
  /\ pc = "idle"
  /\ op = [name |-> "readRegister", a |-> 128, b |-> 0]
  /\ ret = 0
  /\ bus = <<>>
  /\ reg[0] = 85
  /\ reg[127] = 255

\* The register file of the chip answers a read done right after a write.
WriteThenRead(d, r, v) == readRegister(writeRegister(d, r, v), r)

\* C17: writeRegister(addr, v) puts the frame <<addr + 0x80, v>> on the bus,
\* the readRegister(addr) that follows puts <<addr, 0>> on the bus and
\* returns v, the second byte clocked back; for every address up to 0x7F
\* and every 8-bit v.
C17_WriteThenRead ==
  /\ [][(/\ op.name = "writeRegister"
         /\ op.a <= 127
         /\ RegisterCall
         /\ op' = [name |-> "readRegister", a |-> op.a, b |-> 0]) =>
          (/\ bus = << <<op.a + 128, op.b>> >>
           /\ bus' = << <<op.a, 0>> >>
           /\ ret' = op.b
           /\ ret' = ChipAnswer(Dev, bus'[1])[2]
           /\ reg' = reg)]_vars
  /\ [](op.name = "RFM69" =>
          \A r \in RegAddr, v \in Byte :
            /\ WriteThenRead(Begin, r, v) = v
            /\ writeRegister(Begin, r, v).bus = << <<r + 128, v>> >>)

C17_Witness ==
  /\ pc = "idle"
  /\ op = [name |-> "readRegister", a |-> 127, b |-> 0]
  /\ ret = 85
  /\ bus = << <<127, 0>> >>
  /\ reg[0] = 255

---------------------------------------------------------------------------
(* Power level.                                                            *)

\* A call that configures the output power has returned with success.
PowerConfigured ==
  /\ pc = "idle"
  /\ \/ op.name = "setPowerLevel"
     \/ op.name = "setPowerDBm" /\ ret = 0

\* C18: after a successful configuration of the output power the field
\* _powerLevel is the 5-bit value in the low bits of register 0x11.
C18_PowerLevelField == PowerConfigured => powerLevel = reg[17] % 32

\* The same for setPowerLevel alone, the one function that assigns the field.
C18_SetPowerLevelField ==
  (pc = "idle" /\ op.name = "setPowerLevel") => powerLevel = reg[17] % 32

---------------------------------------------------------------------------
(* init.                                                                   *)

\* The write frames of the base configuration, in the order of the table.
BaseConfigWrites ==
  [i \in 1..Len(rfm69_base_config) |->
     <<rfm69_base_config[i][1] + 128, rfm69_base_config[i][2]>>]

\* The frames of the default amplifier and over-current settings, for the
\* value val of register 0x11 before the call.
DefaultPAFrames(hp, val) ==
  << <<147, IF hp THEN 10 ELSE 26>>, <<17, 0>>,
     <<145, (val % 32) + (IF hp THEN 64 ELSE 128)>> >>

\* C19: init, from every state of driver and chip, writes the entries of
\* the base configuration in the order of the table, then the default
\* amplifier and over-current settings, then 0x10 into register 0x28, and
\* returns true.
C19_InitSequence ==
  [][(pc = "idle" /\ pc' = "idle" /\ op'.name = "init") =>
       (/\ bus' = BaseConfigWrites
                    \o DefaultPAFrames(highPowerDevice, reg[17])
                    \o <<FifoClearWrite>>
        /\ ret' = 1
        /\ inited')]_vars

C19_Witness ==
  /\ pc = "idle"
  /\ op.name = "init"
  /\ ret = 1
  /\ highPowerDevice
  /\ highPowerSettings
  /\ Len(bus) = 27
  /\ bus[1] = <<129, 4>>
  /\ bus[23] = <<239, 48>>
  /\ bus[26] = <<145, 64>>
  /\ bus[27] = <<168, 16>>

\* C20: when a call of receive has returned, whether it handed out the
\* stashed packet, a fresh one or nothing, the driver and the chip are in
\* receive mode.
C20_ReceiveLeavesRx ==
  ReceiveReturned => (mode = RFM69_MODE_RX /\ reg[1] = RFM69_MODE_RX * 4)

\* The same for the calls that went to the chip (_receive).  It holds where
\* nothing but the driver's setMode writes register 0x01 (SpecPacket); after
\* init, which writes standby into the register and leaves _mode alone, a
\* receive that finds _mode in receive does not switch the chip (SpecLoop).
C20_FreshReceiveLeavesRx ==
  (ReceiveReturned /\ bus # <<>>) =>
    (mode = RFM69_MODE_RX /\ reg[1] = RFM69_MODE_RX * 4)

---------------------------------------------------------------------------
(* send, the mode it leaves.                                               *)

\* C21: when send has returned a byte count other than 0 the driver is in
\* standby and so is the chip, from every mode before the call, with CSMA
\* on or off, and whether waitForPacketSent saw its flag or timed out.
C21_SendLeavesStandby ==
  /\ []((SendReturned /\ ret # 0) =>
          (mode = RFM69_MODE_STANDBY /\ reg[1] = RFM69_MODE_STANDBY * 4))
  /\ [][(Sending("packetSent") /\ pc' = "idle") =>
          (/\ ret' = loc.dataLength
           /\ ret' > 0
           /\ mode' = RFM69_MODE_STANDBY
           /\ bus'[Len(bus')] = StandbyWrite)]_vars

\* A send entered in sleep mode with CSMA on has returned 64.
C21_Witness ==
  /\ SendReturned
  /\ ret = 64
  /\ csmaEnabled
  /\ bus[1] = FifoClearWrite
  /\ mode = RFM69_MODE_STANDBY

---------------------------------------------------------------------------
(* Frequency, deviation and bitrate.                                       *)

TuneNames == {"setFrequency", "setFrequencyDeviation", "setBitrate"}

TuneReturned == pc = "idle" /\ op.name \in TuneNames

\* C22: when setFrequency, setFrequencyDeviation or setBitrate has returned
\* the module is in standby, whatever its mode before the call.
C22_TuneLeavesStandby ==
  TuneReturned =>
    (mode = RFM69_MODE_STANDBY /\ reg[1] = RFM69_MODE_STANDBY * 4)

\* What the three functions do to the mode: standby from receive and
\* transmit, no change from sleep, standby and the synthesizer mode.
C22_StandbyFromActiveOnly ==
  [][(pc = "idle" /\ pc' = "idle" /\ op'.name \in TuneNames) =>
       IF mode \in {RFM69_MODE_RX, RFM69_MODE_TX}
       THEN mode' = RFM69_MODE_STANDBY /\ bus'[1] = StandbyWrite
       ELSE mode' = mode /\ reg'[1] = reg[1]]_vars

---------------------------------------------------------------------------
(* Automatic reading of the RSSI.                                          *)

IsRssiRead(f) == f = <<36, 0>>

\* A step that is a receive which took a packet out of the FIFO.
ReceiveDrains ==
  /\ pc = "idle"
  /\ pc' = "idle"
  /\ op'.name = "receive"
  /\ ret' > 0
  /\ bus' # <<>>

\* The reads of the RSSI register after the first one, which _receive does
\* for its diagnostic output whether a packet is there or not.
RssiSamples(frames) == Len(SelectSeq(frames, IsRssiRead)) - 1

\* C23: on a device just constructed, with no call of setAutoReadRSSI, a
\* receive that takes a packet out of the FIFO does not sample the RSSI
\* register and leaves the cached RSSI as it was.
C23_AutoReadOffByDefault ==
  [][(op.name = "RFM69" /\ ReceiveDrains) =>
       (rssi' = rssi /\ RssiSamples(bus') = 0)]_vars

\* With automatic reading switched off by setAutoReadRSSI(false) the
\* receive leaves the cached RSSI alone; switched on, or never switched, it
\* samples once and caches the value.
C23_AutoReadFollowsField ==
  [][ReceiveDrains =>
       IF autoReadRSSI
       THEN rssi' = -85 /\ RssiSamples(bus') = 1
       ELSE rssi' = rssi /\ RssiSamples(bus') = 0]_vars

---------------------------------------------------------------------------
(* AES encryption.                                                         *)

AesCall ==
  pc = "idle" /\ pc' = "idle" /\ op'.name = "setAESEncryption"

\* The frames of the key: the address 0x3E with the write bit, then the 16
\* bytes in order.
KeyFrames(bytes) == << <<190>> >> \o [i \in 1..16 |-> <<bytes[i]>>]

\* C24: setAESEncryption returns true exactly for a key that is not null
\* with keyLength 16; it leaves the driver in standby, writing the mode
\* first if it has to; returning false it puts no key byte on the bus and
\* clears bit 0 of register 0x3D; returning true it writes the 16 key bytes
\* in order from register 0x3E on and sets the bit; the other seven bits of
\* 0x3D stay as read.
C24_AesEncryption ==
  [][AesCall =>
       LET key == AesKeys[op'.a]
           ok == ~key.null /\ op'.b = 16
           config == (reg[61] - (reg[61] % 2)) + (IF ok THEN 1 ELSE 0)
       IN /\ ret' = (IF ok THEN 1 ELSE 0)
          /\ mode' = RFM69_MODE_STANDBY
          /\ bus' = (IF mode # RFM69_MODE_STANDBY
                     THEN <<StandbyWrite>> ELSE <<>>)
                    \o (IF ok THEN KeyFrames(key.bytes) ELSE <<>>)
                    \o << <<61, 0>>, <<189, config>> >>
          /\ reg'[61] = config
          /\ ok => \A i \in 1..16 : reg'[61 + i] = key.bytes[i]
          /\ ~ok => \A i \in 1..16 : reg'[61 + i] = reg[61 + i]]_vars

\* The second key has been set while register 0x3D held 0x75.
C24_Witness ==
  /\ pc = "idle"
  /\ op = [name |-> "setAESEncryption", a |-> 3, b |-> 16]
  /\ ret = 1
  /\ Len(bus) = 20
  /\ bus[1] = StandbyWrite
  /\ bus[2] = <<190>>
  /\ bus[3] = <<253>>
  /\ bus[20] = <<189, 117>>
  /\ reg[77] = 208

\* A call that disables: 15 bytes announced, bit 0 cleared from 0xFF.
C24_WitnessDisabled ==
  /\ pc = "idle"
  /\ op = [name |-> "setAESEncryption", a |-> 2, b |-> 15]
  /\ ret = 0
  /\ bus = << <<61, 0>>, <<189, 254>> >>

---------------------------------------------------------------------------
(* send, the steps after the sensing loop.                                 *)

IsTransmitWrite(f) == f = TransmitWrite

\* C25: with CSMA on, the sensing loop is left, on a free channel or on the
\* timeout alike, by the switch to standby; then come the FIFO write of
\* length and payload, the switch to transmit, the wait for PacketSent and
\* the switch to standby.  The FIFO is never written in receive mode and
\* one send enters transmit once.
C25_SameStepsAfterSensing ==
  [][/\ (Sending("csma") /\ pc' = "push") =>
          (/\ mode' = RFM69_MODE_STANDBY
           /\ bus'[Len(bus')] = StandbyWrite)
     /\ (Sending("push") /\ pc' # "push") =>
          (/\ mode # RFM69_MODE_RX
           /\ csmaEnabled => mode = RFM69_MODE_STANDBY
           /\ pc' = "packetSent"
           /\ bus' = bus \o FifoWrite(op.a, op.b) \o <<TransmitWrite>>
           /\ mode' = RFM69_MODE_TX)
     /\ (Sending("packetSent") /\ pc' # "packetSent") =>
          (/\ pc' = "idle"
           /\ bus' = bus \o << <<40, 0>>, StandbyWrite >>
           /\ Len(SelectSeq(bus', IsTransmitWrite)) = 1
           /\ mode' = RFM69_MODE_STANDBY)]_vars

\* A send that left the sensing loop on the timeout, the channel busy, has
\* returned.
C25_Witness ==
  /\ SendReturned
  /\ csmaEnabled
  /\ rssi >= CSMA_RSSI_THRESHOLD
  /\ ret = 2
  /\ rxBufferLength = 0
  /\ SubSeq(bus, Len(bus) - 7, Len(bus))
       = <<StandbyWrite, <<128>>, <<2>>, <<251>>, <<252>>, TransmitWrite,
           <<40, 0>>, StandbyWrite>>

\* The same after an exit on a free channel.
C25_WitnessFree ==
  /\ SendReturned
  /\ csmaEnabled
  /\ rssi < CSMA_RSSI_THRESHOLD
  /\ ret = 2
  /\ SubSeq(bus, Len(bus) - 7, Len(bus))
       = <<StandbyWrite, <<128>>, <<2>>, <<251>>, <<252>>, TransmitWrite,
           <<40, 0>>, StandbyWrite>>

---------------------------------------------------------------------------
(* _receive, the FIFO drain.                                               *)

\* The reads of the drain loop for n bytes: the flag register before each
\* byte and once more at the end.
DrainReads(n) ==
  [i \in 1..(2 * n + 1) |-> IF i % 2 = 1 THEN <<40, 0>> ELSE <<0, 0>>]

\* The bytes the chip hands out for n reads of the FIFO register.
FifoReads(chip, n) ==
  [i \in 1..n |-> IF i <= Len(chip.fifo) THEN chip.fifo[i] ELSE chip.fill]

\* C26: a receive with the stash empty that finds PayloadReady set goes to
\* standby, reads the FIFO byte by byte while FifoNotEmpty is set and
\* fewer than maxLength bytes are read, returns the number of bytes stored,
\* at most maxLength, also when FifoNotEmpty never clears, stores nothing
\* past maxLength bytes, and ends in receive mode.
C26_DrainBounded ==
  [][\A chip \in DrainChips :
       (chip.ready /\ rxBufferLength = 0 /\ ReceiveWith(chip)) =>
         LET n == IF chip.stuck THEN op'.a ELSE Min(Len(chip.fifo), op'.a)
             enter == IF mode = RFM69_MODE_RX THEN <<>>
                      ELSE <<OpModeWrite(RFM69_MODE_RX), ModeReadyPoll>>
             sample == IF autoReadRSSI THEN << <<36, 0>> >> ELSE <<>>
             config == reg[61] + (IF (reg[61] \div 4) % 2 = 1 THEN 0 ELSE 4)
         IN /\ ret' = n
            /\ ret' <= op'.a
            /\ out' = FifoReads(chip, n)
            /\ mode' = RFM69_MODE_RX
            /\ reg'[1] = RFM69_MODE_RX * 4
            /\ bus' = enter \o FlagReads \o <<StandbyWrite>> \o DrainReads(n)
                        \o sample
                        \o <<OpModeWrite(RFM69_MODE_RX), <<61, 0>>,
                             <<189, config>> >>]_vars

\* FifoNotEmpty never cleared: 5 bytes asked for, 5 stored, two of them the
\* packet.
C26_Witness ==
  /\ ReceiveReturned
  /\ op.a = 5
  /\ ret = 5
  /\ out = <<4, 51, 238, 238, 238>>
  /\ mode = RFM69_MODE_RX

\* A packet of 3 bytes cut to a buffer of 2.
C26_WitnessCut ==
  /\ ReceiveReturned
  /\ op.a = 2
  /\ ret = 2
  /\ out = <<2, 17>>
  /\ mode = RFM69_MODE_RX

---------------------------------------------------------------------------
(* Power amplifier settings and power level.                               *)

\* C27: setPASettings(0) writes 0x0A into register 0x13 on a high-power
\* device and 0x1A on another one, then reads register 0x11 and writes it
\* back with the low five bits as read and the enable bits 0x40 (PA1) on a
\* high-power device, 0x80 (PA0) on another one; the boost flag and the
\* boost registers 0x5A and 0x5C stay as they are.
C27_DefaultPASettings ==
  [][(pc = "idle" /\ pc' = "idle" /\ op'.name = "setPASettings"
      /\ op'.a = 0) =>
       (/\ bus' = DefaultPAFrames(highPowerDevice, reg[17])
        /\ reg'[19] = (IF highPowerDevice THEN 10 ELSE 26)
        /\ reg'[17] = (reg[17] % 32) + (IF highPowerDevice THEN 64 ELSE 128)
        /\ highPowerSettings' = highPowerSettings
        /\ reg'[90] = reg[90]
        /\ reg'[92] = reg[92]
        /\ DriverFields' = DriverFields)]_vars

C27_Witness ==
  /\ pc = "idle"
  /\ op.name = "setPASettings"
  /\ op.a = 0
  /\ highPowerDevice
  /\ highPowerSettings
  /\ bus = << <<147, 10>>, <<17, 0>>, <<145, 95>> >>
  /\ reg[90] = 93
  /\ reg[92] = 124

\* C28: setPowerLevel takes 31 for every value above 31, reads register
\* 0x11 and writes it back with the three enable bits as read and the
\* clamped value in the low five bits, and stores the clamped value in
\* _powerLevel.
C28_SetPowerLevel ==
  [][(pc = "idle" /\ pc' = "idle" /\ op'.name = "setPowerLevel") =>
       LET p == IF op'.a > 31 THEN 31 ELSE op'.a
           value == (reg[17] - (reg[17] % 32)) + p
       IN /\ bus' = << <<17, 0>>, <<145, value>> >>
          /\ reg'[17] = value
          /\ powerLevel' = p
          /\ mode' = mode
          /\ highPowerSettings' = highPowerSettings]_vars

C28_Witness ==
  /\ pc = "idle"
  /\ op = [name |-> "setPowerLevel", a |-> 32, b |-> 0]
  /\ powerLevel = 31
  /\ bus = << <<17, 0>>, <<145, 95>> >>
  /\ reg[17] = 95

---------------------------------------------------------------------------
(* The tick of the bounded waits.                                          *)

\* A step in which only time passes while send is in one of its waits.
TimePasses == pc' = pc /\ clk' # clk

\* C29: while real time advances the value of HAL_GetTick does not go
\* down and grows by one per millisecond: the unsigned difference of two
\* readings is the number of milliseconds between them.
C29_TickCountsMilliseconds ==
  [][TimePasses =>
       U32Sub(HAL_GetTick(clk'), HAL_GetTick(clk))
         = [hi |-> 0, lo |-> RealMs(clk') - RealMs(clk)]]_vars

\* The consequence for the waits, shown on the sensing loop: it is left on
\* a busy channel only when TIMEOUT_CSMA_READY milliseconds have passed
\* since sensing began.
C29_NoEarlyTimeout ==
  [][(Sending("csma") /\ pc' = "push" /\ rssi' >= CSMA_RSSI_THRESHOLD) =>
       RealMs(clk) - loc.senseStart >= TIMEOUT_CSMA_READY]_vars

\* Within one second of the wall clock the tick does count milliseconds.
C29_TickWithinSecond ==
  [][(TimePasses /\ clk'.sec = clk.sec) =>
       U32Sub(HAL_GetTick(clk'), HAL_GetTick(clk))
         = [hi |-> 0, lo |-> RealMs(clk') - RealMs(clk)]]_vars

---------------------------------------------------------------------------
(* The sensing loop and the packets captured in it.                        *)

\* C30: a capture in the sensing loop leaves the timestamp of the loop,
\* taken when sensing began, as it is, and gives the RSSI wait that follows
\* a timestamp of its own; the loop body is entered only while less than
\* TIMEOUT_CSMA_READY ticks, and less than that many milliseconds, have
\* passed since sensing began, however many packets were captured.
C30_CaptureKeepsCeiling ==
  [][/\ Capture =>
          (/\ loc'.timeEntry = loc.timeEntry
           /\ loc'.senseStart = loc.senseStart
           /\ loc'.timeEntry2 = HAL_GetTick(clk'))
     /\ (Sending("rssiDone2") /\ pc' = "csma") =>
          loc'.timeEntry = loc.timeEntry
     /\ (Sending("csma") /\ pc' = "body") =>
          (/\ U32Less(U32Sub(HAL_GetTick(clk), loc.timeEntry),
                      TIMEOUT_CSMA_READY)
           /\ RealMs(clk) - loc.senseStart < TIMEOUT_CSMA_READY)]_vars

\* Two captures, then the loop left on the timeout, the channel still
\* busy, TIMEOUT_CSMA_READY milliseconds after sensing began.
C30_Witness ==
  /\ Sending("push")
  /\ loc.iter = 2
  /\ rxBufferLength > 0
  /\ rssi >= CSMA_RSSI_THRESHOLD
  /\ RealMs(clk) - loc.senseStart >= TIMEOUT_CSMA_READY
  /\ RealMs(clk) - loc.senseStart < TIMEOUT_CSMA_READY + 50

---------------------------------------------------------------------------
(* The boost registers.                                                    *)

BoostDisabled == reg[90] = 85 /\ reg[92] = 112

\* C31: on a high-power device, when an operation has returned and the
\* driver is in receive mode, registers 0x5A and 0x5C hold the values that
\* disable the boost, 0x55 and 0x70.
C31_NoBoostInReceive ==
  (pc = "idle" /\ highPowerDevice /\ mode = RFM69_MODE_RX) => BoostDisabled

---------------------------------------------------------------------------
(* The length of the stash.                                                *)

\* C32: _rxBufferLength is between 0 and 64; it becomes non-zero, or
\* changes to another non-zero value, only in the capture step of a send
\* that runs with CSMA on; with CSMA off it stays 0 once it is 0, so that
\* from construction on it is 0 until CSMA is switched on; and a receive
\* that finds it 0 goes to the bus.
C32_StashLength ==
  /\ [](rxBufferLength \in 0..RFM69_MAX_PAYLOAD)
  /\ [][/\ (rxBufferLength' # rxBufferLength /\ rxBufferLength' > 0) =>
             (Capture /\ csmaEnabled /\ csmaEnabled')
        /\ (~csmaEnabled /\ rxBufferLength = 0) => rxBufferLength' = 0
        /\ (pc = "idle" /\ pc' = "idle" /\ op'.name = "receive"
            /\ rxBufferLength = 0) => bus' # <<>>]_vars

\* A capture from a chip whose FifoNotEmpty flag never clears: 64 bytes
\* stashed.
C32_Witness ==
  /\ Sending("rssiDone2")
  /\ csmaEnabled
  /\ rxBufferLength = RFM69_MAX_PAYLOAD
  /\ rxBuffer[1] = 4
  /\ rxBuffer[64] = 238

---------------------------------------------------------------------------
(* The cached RSSI.                                                        *)

\* A step of a send that added a read of the RSSI register to the bus.
SendReadsRssi ==
  \E i \in (Len(bus) + 1)..Len(bus') : IsRssiRead(bus'[i])

\* A step that is a receive which found PayloadReady set and went to
\* standby to read the FIFO, whatever the number of bytes it then took.
ReceiveTakesPacket ==
  /\ pc = "idle"
  /\ pc' = "idle"
  /\ op'.name = "receive"
  /\ rxBufferLength = 0
  /\ \E i \in 1..Len(bus') : bus'[i] = StandbyWrite

---------------------------------------------------------------------------
(* The boost registers of a device that is not a high-power one.           *)

\* The frames hold a write of an enabling value to a boost register.
EnablesBoost(frames) ==
  \E i \in 1..Len(frames) : frames[i] \in {<<218, 93>>, <<220, 124>>}

\* The frames hold the two writes of the disabling values, one after the
\* other.
DisablesBoost(frames) ==
  \E i \in 1..(Len(frames) - 1) :
    frames[i] = <<218, 85>> /\ frames[i + 1] = <<220, 112>>

\* A step that is a call, on a device that is not a high-power one, of an
\* operation other than setCustomConfig.
PlainDeviceCall ==
  /\ pc = "idle"
  /\ pc' = "idle"
  /\ ~highPowerDevice
  /\ op'.name # "setCustomConfig"

\* The part of the statement on setHighPowerSettings(true) and on
\* setPASettings with bit 0x08: they write 0x55 and 0x70.
ForcedBoostIsDisabled ==
  /\ (op'.name = "setHighPowerSettings" /\ op'.a = 1) =>
       bus' = BoostDisabledWrites
  /\ (op'.name = "setPASettings" /\ BitAnd(op'.a, 8) # 0) =>
       DisablesBoost(bus')

\* A call of setMode(RFM69_MODE_TX) that changes the mode.
EntersTransmit ==
  /\ op'.name = "setMode"
  /\ op'.a = RFM69_MODE_TX
  /\ mode # RFM69_MODE_TX

\* C34: on a device that is not a high-power one no operation other than
\* setCustomConfig writes 0x5D to register 0x5A or 0x7C to register 0x5C;
\* setHighPowerSettings(true) and setPASettings with bit 0x08 write 0x55
\* and 0x70 instead, and setMode(RFM69_MODE_TX) writes register 0x01 and
\* no other register.
C34_NoBoostOnPlainDevice ==
  [][PlainDeviceCall =>
       /\ ~EnablesBoost(bus')
       /\ ForcedBoostIsDisabled
       /\ EntersTransmit => bus' = << <<129, RFM69_MODE_TX * 4>> >>]_vars

\* C34 as stated: setMode(RFM69_MODE_TX) too writes 0x55 and 0x70.
C34_TransmitWritesDisabled ==
  [][PlainDeviceCall =>
       /\ ~EnablesBoost(bus')
       /\ ForcedBoostIsDisabled
       /\ EntersTransmit => DisablesBoost(bus')]_vars

\* setPASettings(0x0E) has returned on a device that is not a high-power
\* one: the flag is set and the registers hold the disabling values.
C34_Witness ==
  /\ pc = "idle"
  /\ ~highPowerDevice
  /\ op.name = "setPASettings"
  /\ op.a = 14
  /\ highPowerSettings
  /\ DisablesBoost(bus)
  /\ BoostDisabled

====
